---- MODULE Spec2Model ----
(***************************************************************************)
(* State-machine model of kivent_core/managers/resource_managers.pyx:      *)
(* the ModelManager (vertex-format pools, named models, copy naming,       *)
(* entity registration) and the module-level TextureManager singleton      *)
(* (integer texkeys, name <-> texkey maps, atlas groups, UV rectangles).   *)
(*                                                                         *)
(* A Python dict is a function with a finite domain; a KeyError raised in  *)
(* the middle of a handler leaves every assignment made before it in       *)
(* place, so each handler is an operator that threads the manager's state  *)
(* through its statements in source order and returns the state reached    *)
(* together with ok = FALSE when a statement raised.                       *)
(*                                                                         *)
(* Floating-point UV values are modelled as exact rationals <<num, den>>   *)
(* in lowest terms (rounding is abstracted away).  External collaborators  *)
(* (CoreImage, VertexModel, MemoryBlock, format_registrar) are modelled by *)
(* the data this file reads from or writes to them.                        *)
(***************************************************************************)
EXTENDS Integers, Sequences, FiniteSets, TLC

VARIABLES
    \* TextureManager (the texture_manager singleton)
    textures,        \* _textures: texkey -> texture
    keys,            \* _keys: name -> texkey
    key_index,       \* _key_index: texkey -> name
    texkey_index,    \* _texkey_index: texkey -> group key
    key_count,       \* _key_count
    sizes,           \* _sizes: texkey -> <<w, h>>
    uvs,             \* _uvs: texkey -> <<u0, v0, u1, v1>>
    groups,          \* _groups: group key -> sequence of texkeys
    \* ModelManager
    memory_blocks,   \* memory_blocks: format -> pools
    models,          \* _models: name -> VertexModel
    key_counts,      \* _key_counts: name -> copies counter
    model_register,  \* _model_register: name -> (entity_id -> system_id)
    model_count,     \* number of VertexModel objects constructed so far
    \* the last call made on either manager and its outcome
    ret

tmvars == <<textures, keys, key_index, texkey_index, key_count, sizes, uvs, groups>>
mmvars == <<memory_blocks, models, key_counts, model_register, model_count>>
vars == <<textures, keys, key_index, texkey_index, key_count, sizes, uvs, groups,
          memory_blocks, models, key_counts, model_register, model_count, ret>>

----------------------------------------------------------------------------
(* Bounds of the model *)

\* texkeys handed out in one behaviour (caps _key_count)
MaxKeys == 4
\* VertexModel objects constructed in one behaviour (caps model_count)
MaxModels == 3
\* largest value a copies counter of _key_counts is driven to
MaxCopies == 2
\* (model, entity) pairs registered at a time
MaxRegistered == 2

----------------------------------------------------------------------------
(* Python dict and number helpers *)

EmptyDict == [x \in {} |-> 0]

\* d[k] = v
Put(d, k, v) == [x \in DOMAIN d \cup {k} |-> IF x = k THEN v ELSE d[x]]

\* del d[k]
Del(d, k) == [x \in DOMAIN d \ {k} |-> d[x]]

\* the elements of a list
Members(s) == {s[i] : i \in 1..Len(s)}

Digits == <<"0", "1", "2", "3", "4", "5", "6", "7", "8", "9">>

\* str(n) of a non-negative int: its decimal digits
RECURSIVE str(_)
str(n) == IF n < 10 THEN Digits[n + 1] ELSE str(n \div 10) \o Digits[(n % 10) + 1]

Abs(n) == IF n < 0 THEN -n ELSE n

RECURSIVE GCD(_, _)
GCD(a, b) == IF b = 0 THEN a ELSE GCD(b, a % b)

\* the float n/d, as a rational in lowest terms with a positive denominator
Rat(n, d) ==
    LET g == GCD(Abs(n), Abs(d))
        s == IF d < 0 THEN -1 ELSE 1
    IN  <<(s * n) \div g, (s * d) \div g>>

\* a - b on floats
RatSub(a, b) == Rat(a[1] * b[2] - b[1] * a[2], a[2] * b[2])

\* the float literals 0. and 1.
Zero == Rat(0, 1)
One == Rat(1, 1)

----------------------------------------------------------------------------
(* os.path on paths <<dir, stem, ext>>: dir ends with its separator or is empty *)

Path(dir, stem, ext) == [dir |-> dir, stem |-> stem, ext |-> ext]

\* path.basename(p)
basenameWithoutExt(p) == p.stem
basename(p) == p.stem \o p.ext

\* path.splitext(path.basename(p))[0]
splitext_stem(p) == p.stem

\* CoreImage(p).texture.size: the pixel size of the image stored in file p
ImageSize(p) == IF p.stem = "sheet" THEN <<100, 100>> ELSE <<40, 50>>

\* CoreImage(p).texture: the decoded texture of file p
CoreImage(p) == [size |-> ImageSize(p)]

----------------------------------------------------------------------------
(* TextureManager *)

\* the manager's fields as one value, threaded through a handler's statements
TM == [textures |-> textures, keys |-> keys, key_index |-> key_index,
       texkey_index |-> texkey_index, key_count |-> key_count, sizes |-> sizes,
       uvs |-> uvs, groups |-> groups]

\* the handler returned `result` with the manager in state tm
Return(tm, result) == [tm |-> tm, ok |-> TRUE, result |-> result]

\* the handler raised `error` with the manager in state tm
Raise(tm, error) == [tm |-> tm, ok |-> FALSE, result |-> error]

\* self._key_count += 1
NextKeyCountStuck(kc) == kc
NextKeyCount(kc) == kc + 1

\* the UV rectangle of a whole texture: [0., 0., 1., 1.]
FullUVs == <<Zero, Zero, One, One>>

\* load_texture(name, texture); load_image runs the same statements
load_texture_without_size(tm, name, texture) ==
    IF name \in DOMAIN tm.keys
    THEN Raise(tm, "KeyError")
    ELSE LET kc == tm.key_count
         IN  Return([textures     |-> Put(tm.textures, kc, texture),
                     sizes        |-> tm.sizes,
                     keys         |-> Put(tm.keys, name, kc),
                     key_index    |-> Put(tm.key_index, kc, name),
                     texkey_index |-> Put(tm.texkey_index, kc, kc),
                     uvs          |-> Put(tm.uvs, kc, FullUVs),
                     groups       |-> Put(tm.groups, kc, <<kc>>),
                     key_count    |-> NextKeyCount(kc)], kc)
load_texture(tm, name, texture) ==
    IF name \in DOMAIN tm.keys
    THEN Raise(tm, "KeyError")
    ELSE LET kc == tm.key_count
         IN  Return([textures     |-> Put(tm.textures, kc, texture),
                     sizes        |-> Put(tm.sizes, kc, texture.size),
                     keys         |-> Put(tm.keys, name, kc),
                     key_index    |-> Put(tm.key_index, kc, name),
                     texkey_index |-> Put(tm.texkey_index, kc, kc),
                     uvs          |-> Put(tm.uvs, kc, FullUVs),
                     groups       |-> Put(tm.groups, kc, <<kc>>),
                     key_count    |-> NextKeyCount(kc)], kc)

\* load_image(source)
load_image(tm, source) == load_texture(tm, splitext_stem(source), CoreImage(source))

\* the body of `for key in texture_keys` of unload_texture, from element i on
RECURSIVE unload_keys(_, _, _)
unload_keys(tm, texture_keys, i) ==
    IF i > Len(texture_keys) THEN Return(tm, "None")
    ELSE
    LET key == texture_keys[i] IN
    IF key \notin DOMAIN tm.key_index THEN Raise(tm, "KeyError") ELSE
    LET name == tm.key_index[key]
        t1 == [tm EXCEPT !.key_index = Del(@, key)] IN
    IF key \notin DOMAIN t1.uvs THEN Raise(t1, "KeyError") ELSE
    LET t2 == [t1 EXCEPT !.uvs = Del(@, key)] IN
    IF key \notin DOMAIN t2.texkey_index THEN Raise(t2, "KeyError") ELSE
    LET t3 == [t2 EXCEPT !.texkey_index = Del(@, key)] IN
    IF name \notin DOMAIN t3.keys THEN Raise(t3, "KeyError") ELSE
    LET t4 == [t3 EXCEPT !.keys = Del(@, name)] IN
    IF key \notin DOMAIN t4.sizes THEN Raise(t4, "KeyError") ELSE
    unload_keys([t4 EXCEPT !.sizes = Del(@, key)], texture_keys, i + 1)

\* the key whose group unload_texture walks: key_index = self._keys[name]
UnloadGroupKey(tm, name) == tm.keys[name]

\* unload_texture(name)
unload_texture(tm, name) ==
    IF name \notin DOMAIN tm.keys THEN Raise(tm, "KeyError") ELSE
    LET group_key == UnloadGroupKey(tm, name) IN
    IF group_key \notin DOMAIN tm.groups THEN Raise(tm, "KeyError") ELSE
    LET r == unload_keys(tm, tm.groups[group_key], 1) IN
    IF ~r.ok THEN r ELSE
    LET t1 == [r.tm EXCEPT !.groups = Del(@, group_key)] IN
    IF group_key \notin DOMAIN t1.textures THEN Raise(t1, "KeyError") ELSE
    Return([t1 EXCEPT !.textures = Del(@, group_key)], "None")

\* the UV rectangle of the pixel rectangle (kx, ky, kw, kh) in a texture of
\* size (w, h): [x1/w, 1.-y1/h, x2/w, 1.-y2/h]
AtlasUVsUnflipped(kx, ky, kw, kh, w, h) ==
    <<Rat(kx, w), Rat(ky, h), Rat(kx + kw, w), Rat(ky + kh, h)>>
AtlasUVs(kx, ky, kw, kh, w, h) ==
    LET x1 == kx
        y1 == ky
        x2 == x1 + kw
        y2 == y1 + kh
    IN  <<Rat(x1, w), RatSub(One, Rat(y1, h)), Rat(x2, w), RatSub(One, Rat(y2, h))>>

\* the body of `for key in atlas_content` of load_atlas, from entry i on
RECURSIVE atlas_entries(_, _, _, _, _)
atlas_entries(tm, atlas_key, size, atlas_content, i) ==
    IF i > Len(atlas_content) THEN tm
    ELSE
    LET key == atlas_content[i].key
        rect == atlas_content[i].rect
        kc == tm.key_count
    IN  atlas_entries(
            [tm EXCEPT !.keys = Put(@, key, kc),
                       !.key_index = Put(@, kc, key),
                       !.texkey_index = Put(@, kc, atlas_key),
                       !.sizes = Put(@, kc, <<rect[3], rect[4]>>),
                       !.uvs = Put(@, kc, AtlasUVs(rect[1], rect[2], rect[3], rect[4],
                                                   size[1], size[2])),
                       !.key_count = NextKeyCount(kc),
                       !.groups = Put(@, atlas_key, Append(@[atlas_key], kc))],
            atlas_key, size, atlas_content, i + 1)

\* the body of `for imgname in atlas_data` of load_atlas, from image i on
RECURSIVE atlas_images(_, _, _)
atlas_images(tm, atlas_data, i) ==
    IF i > Len(atlas_data) THEN Return(tm, "None")
    ELSE
    LET img == atlas_data[i]
        texture == CoreImage(img.imgname)
        r == load_texture(tm, basename(img.imgname), texture)
    IN  IF ~r.ok THEN r
        ELSE atlas_images(atlas_entries(r.tm, r.result, texture.size, img.content, 1),
                          atlas_data, i + 1)

\* load_atlas(source): json.load yields `atlas_data`, or raises when parsed is FALSE
load_atlas(tm, parsed, atlas_data) ==
    IF ~parsed THEN Raise(tm, "ValueError") ELSE atlas_images(tm, atlas_data, 1)

\* TextureManager.get_texkey_from_name: self._keys[name]
get_texkey_from_name(tm, name) ==
    IF name \notin DOMAIN tm.keys THEN Raise(tm, "KeyError")
    ELSE Return(tm, tm.keys[name])

\* TextureManager.get_uvs: self._uvs[tex_key]
get_uvs(tm, tex_key) ==
    IF tex_key \notin DOMAIN tm.uvs THEN Raise(tm, "KeyError")
    ELSE Return(tm, tm.uvs[tex_key])

\* TextureManager.get_size: self._sizes[tex_key]
get_size(tm, tex_key) ==
    IF tex_key \notin DOMAIN tm.sizes THEN Raise(tm, "KeyError")
    ELSE Return(tm, tm.sizes[tex_key])

\* TextureManager.get_texture: self._textures[tex_key]
get_texture(tm, tex_key) ==
    IF tex_key \notin DOMAIN tm.textures THEN Raise(tm, "KeyError")
    ELSE Return(tm, tm.textures[tex_key])

\* TextureManager.get_groupkey_from_texkey: self._texkey_index[tex_key]
get_groupkey_from_texkey(tm, tex_key) ==
    IF tex_key \notin DOMAIN tm.texkey_index THEN Raise(tm, "KeyError")
    ELSE Return(tm, tm.texkey_index[tex_key])

\* TextureManager.get_texname_from_texkey: self._key_index[tex_key]
get_texname_from_texkey(tm, tex_key) ==
    IF tex_key \notin DOMAIN tm.key_index THEN Raise(tm, "KeyError")
    ELSE Return(tm, tm.key_index[tex_key])

\* TextureManager.get_texkey_in_group: tex_key in self._groups[group_key]
get_texkey_in_group(tm, tex_key, group_key) ==
    IF group_key \notin DOMAIN tm.groups THEN Raise(tm, "KeyError")
    ELSE Return(tm, tex_key \in Members(tm.groups[group_key]))

----------------------------------------------------------------------------
(* Inputs of the TextureManager *)

\* names given to load_texture and keys of an atlas's sub-images
TexNames == {"a", "sheet.png"}

\* image files: load_image sources and the image names of an atlas
ImageFiles == {Path("", "sheet", ".png"), Path("sub/", "a", ".png")}

\* decoded textures handed to load_texture
Textures == {[size |-> <<64, 32>>]}

\* every name a texture can be registered under
AllTexNames == TexNames \cup {splitext_stem(p) : p \in ImageFiles}
                        \cup {basename(p) : p \in ImageFiles}

\* pixel rectangles [x, y, w, h] of sub-images, inside every image
Rects == {<<10, 10, 20, 20>>, <<0, 20, 40, 25>>}

AtlasEntries == [key : TexNames, rect : Rects]

\* the entries of one image of an atlas: a JSON object, so its keys are distinct
AtlasContents ==
    {<<>>} \cup {<<e>> : e \in AtlasEntries}
           \cup {c \in AtlasEntries \X AtlasEntries : c[1].key # c[2].key}

AtlasImages == [imgname : ImageFiles, content : AtlasContents]

\* the texkeys load_atlas assigns when no statement raises
RECURSIVE AtlasKeysNeeded(_, _)
AtlasKeysNeeded(atlas_data, i) ==
    IF i > Len(atlas_data) THEN 0
    ELSE 1 + Len(atlas_data[i].content) + AtlasKeysNeeded(atlas_data, i + 1)

\* atlas descriptions of one or two image files (a JSON object: distinct names)
\* that fit in the texkeys left
Atlases(room) ==
    {a \in {<<i>> : i \in AtlasImages} : AtlasKeysNeeded(a, 1) <= room}
    \cup {a \in AtlasImages \X AtlasImages :
            a[1].imgname # a[2].imgname /\ AtlasKeysNeeded(a, 1) <= room}

----------------------------------------------------------------------------
(* Actions of the TextureManager *)

\* the manager's fields become those of tm
SetTM(tm) ==
    /\ textures' = tm.textures
    /\ keys' = tm.keys
    /\ key_index' = tm.key_index
    /\ texkey_index' = tm.texkey_index
    /\ key_count' = tm.key_count
    /\ sizes' = tm.sizes
    /\ uvs' = tm.uvs
    /\ groups' = tm.groups

LoadTexture ==
    /\ key_count < MaxKeys
    /\ \E name \in TexNames, texture \in Textures :
        LET r == load_texture(TM, name, texture) IN
        /\ SetTM(r.tm)
        /\ ret' = [op |-> "load_texture", ok |-> r.ok, result |-> r.result]
    /\ UNCHANGED mmvars

LoadImage ==
    /\ key_count < MaxKeys
    /\ \E source \in ImageFiles :
        LET r == load_image(TM, source) IN
        /\ SetTM(r.tm)
        /\ ret' = [op |-> "load_image", ok |-> r.ok, result |-> r.result]
    /\ UNCHANGED mmvars

LoadAtlas ==
    /\ \E parsed \in BOOLEAN :
       \E atlas_data \in IF parsed THEN Atlases(MaxKeys - key_count) ELSE {<<>>} :
        LET r == load_atlas(TM, parsed, atlas_data) IN
        /\ SetTM(r.tm)
        /\ ret' = [op |-> "load_atlas", ok |-> r.ok, result |-> r.result]
    /\ UNCHANGED mmvars

UnloadTexture ==
    /\ \E name \in AllTexNames :
        LET r == unload_texture(TM, name) IN
        /\ SetTM(r.tm)
        /\ ret' = [op |-> "unload_texture", ok |-> r.ok, result |-> r.result]
    /\ UNCHANGED mmvars

----------------------------------------------------------------------------
(* ModelManager *)

\* ModelManager.__init__(allocation_size=100*1024)
allocation_size == 102400

\* format_registrar._vertex_formats: the registered vertex formats
vertex_formats == {"F", "G"}

\* model_name=None of copy_model
None == "None"

\* the manager's fields as one value, threaded through a handler's statements
MM == [memory_blocks |-> memory_blocks, models |-> models, key_counts |-> key_counts,
       model_register |-> model_register, model_count |-> model_count]

\* the handler returned `result` with the manager in state mm
ReturnM(mm, result) == [mm |-> mm, ok |-> TRUE, result |-> result]

\* the handler raised `error` with the manager in state mm
RaiseM(mm, error) == [mm |-> mm, ok |-> FALSE, result |-> error]

\* MemoryBlock(size, 1, 1) after allocate_memory_with_buffer(master_buffer)
MemoryBlock(size) == [size |-> size]

\* the body of `for format in formats_to_allocate` of allocate, from entry i on;
\* total_count and the bytes reserved from master_buffer are carried along
RECURSIVE allocate_formats(_, _, _, _, _)
allocate_formats(mm, formats_to_allocate, i, total_count, reserved) ==
    IF i > Len(formats_to_allocate)
    THEN [mm |-> mm, ok |-> TRUE, result |-> total_count, reserved |-> reserved]
    ELSE
    LET format == formats_to_allocate[i].format
        vertex_size == formats_to_allocate[i].vertex_size
        index_size == formats_to_allocate[i].index_size
    IN  IF format \notin vertex_formats
        THEN [mm |-> mm, ok |-> FALSE, result |-> "KeyError", reserved |-> reserved]
        ELSE
        LET indices_block == MemoryBlock(allocation_size \div 2)
            vertices_block == MemoryBlock(allocation_size \div 2)
        IN  allocate_formats(
                [mm EXCEPT !.memory_blocks =
                    Put(@, format, [indices_block |-> indices_block,
                                    vertices_block |-> vertices_block])],
                formats_to_allocate, i + 1, total_count + vertex_size + index_size,
                reserved + vertices_block.size + indices_block.size)

\* the entries allocate adds to an empty formats_to_allocate, over an order of
\* the registered formats
DefaultFormats(order) ==
    [i \in 1..Len(order) |->
        [format |-> order[i],
         vertex_size |-> allocation_size - allocation_size \div 4,
         index_size |-> allocation_size \div 4]]

\* allocate(master_buffer, formats_to_allocate); `order` is the iteration order
\* of the registered formats
allocate(mm, formats_to_allocate, order) ==
    allocate_formats(mm,
        IF formats_to_allocate = <<>> THEN DefaultFormats(order) ELSE formats_to_allocate,
        1, 0, 0)

\* VertexModel(vertex_count, index_count, format_config, index_block,
\* vertex_block, name): a new model, its vertex and index data not yet written
VertexModel(vertex_count, index_count, format_name, name) ==
    [vertex_count |-> vertex_count, index_count |-> index_count,
     format |-> format_name, name |-> name, data |-> <<"unset">>]

\* `elif name in self._key_counts and not do_copy: return name`
ReturnsExistingInverted(kc, name, do_copy) == name \in DOMAIN kc /\ do_copy
ReturnsExisting(kc, name, do_copy) == name \in DOMAIN kc /\ ~do_copy

\* the key of `self._key_counts[name] += 1`: name has been rebound to the
\* derived name by the statement before
CounterKey(name, derived) == derived

\* load_model(format_name, vertex_count, index_count, name, do_copy)
load_model(mm, format_name, vertex_count, index_count, name, do_copy) ==
    IF format_name \notin vertex_formats THEN RaiseM(mm, "KeyError") ELSE
    IF ReturnsExisting(mm.key_counts, name, do_copy) THEN ReturnM(mm, name) ELSE
    LET seen == name \in DOMAIN mm.key_counts
        derived == IF seen THEN name \o "_" \o str(mm.key_counts[name]) ELSE name
        ck == CounterKey(name, derived)
    IN
    IF seen /\ ck \notin DOMAIN mm.key_counts THEN RaiseM(mm, "KeyError") ELSE
    LET m1 == [mm EXCEPT !.key_counts =
                   IF seen THEN Put(@, ck, @[ck] + 1) ELSE Put(@, name, 0)]
    IN
    IF format_name \notin DOMAIN m1.memory_blocks THEN RaiseM(m1, "KeyError") ELSE
    ReturnM([m1 EXCEPT !.models = Put(@, derived,
                           VertexModel(vertex_count, index_count, format_name,
                                       derived)),
                       !.model_count = @ + 1], derived)

\* model.copy_vertex_model(other): other's vertex and index data written to model
copy_vertex_model(model, other) == [model EXCEPT !.data = other.data]

\* copy_model(model_to_copy, model_name)
copy_model(mm, model_to_copy, model_name) ==
    IF model_to_copy \notin DOMAIN mm.models THEN RaiseM(mm, "KeyError") ELSE
    LET source == mm.models[model_to_copy]
        target == IF model_name = None THEN model_to_copy ELSE model_name
        r == load_model(mm, source.format, source.vertex_count, source.index_count,
                        target, TRUE)
    IN  IF ~r.ok THEN r
        ELSE IF r.result \notin DOMAIN r.mm.models THEN RaiseM(r.mm, "KeyError")
        ELSE ReturnM([r.mm EXCEPT !.models =
                         Put(@, r.result, copy_vertex_model(@[r.result], source))],
                     r.result)

\* model.set_textured_rectangle(width, height, uvs)
set_textured_rectangle(model, width, height, uvs_) ==
    [model EXCEPT !.data = <<"rectangle", width, height, uvs_>>]

\* load_textured_rectangle(format_name, width, height, texture_key, name, do_copy),
\* reading the texture_manager singleton tm
load_textured_rectangle(mm, tm, format_name, width, height, texture_key, name, do_copy) ==
    LET r == load_model(mm, format_name, 4, 6, name, do_copy) IN
    IF ~r.ok THEN r ELSE
    IF r.result \notin DOMAIN r.mm.models THEN RaiseM(r.mm, "KeyError") ELSE
    IF texture_key \notin DOMAIN tm.keys THEN RaiseM(r.mm, "KeyError") ELSE
    LET texkey == tm.keys[texture_key] IN
    IF texkey \notin DOMAIN tm.uvs THEN RaiseM(r.mm, "KeyError") ELSE
    ReturnM([r.mm EXCEPT !.models =
                Put(@, r.result,
                    set_textured_rectangle(@[r.result], width, height, tm.uvs[texkey]))],
            r.result)

\* unload_model(model_name)
unload_model_keeps_counter(mm, model_name) ==
    IF model_name \notin DOMAIN mm.models THEN RaiseM(mm, "KeyError") ELSE
    LET m1 == [mm EXCEPT !.models = Del(@, model_name)]
        m2 == IF model_name \in DOMAIN m1.model_register
              THEN [m1 EXCEPT !.model_register = Del(@, model_name)] ELSE m1
    IN  ReturnM(m2, "None")
unload_model(mm, model_name) ==
    IF model_name \notin DOMAIN mm.models THEN RaiseM(mm, "KeyError") ELSE
    LET m1 == [mm EXCEPT !.models = Del(@, model_name)]
        m2 == IF model_name \in DOMAIN m1.model_register
              THEN [m1 EXCEPT !.model_register = Del(@, model_name)] ELSE m1
        m3 == IF model_name \in DOMAIN m2.key_counts
              THEN [m2 EXCEPT !.key_counts = Del(@, model_name)] ELSE m2
    IN  ReturnM(m3, "None")

\* register_entity_with_model(entity_id, system_id, model_name)
register_entity_with_model(mm, entity_id, system_id, model_name) ==
    ReturnM([mm EXCEPT !.model_register =
                IF model_name \notin DOMAIN @
                THEN Put(@, model_name, Put(EmptyDict, entity_id, system_id))
                ELSE Put(@, model_name, Put(@[model_name], entity_id, system_id))],
            "None")

\* unregister_entity_with_model(entity_id, model_name)
unregister_entity_drops_bucket(mm, entity_id, model_name) ==
    IF model_name \notin DOMAIN mm.model_register THEN RaiseM(mm, "KeyError") ELSE
    IF entity_id \notin DOMAIN mm.model_register[model_name]
    THEN RaiseM(mm, "KeyError")
    ELSE ReturnM([mm EXCEPT !.model_register = Del(@, model_name)], "None")
unregister_entity_with_model(mm, entity_id, model_name) ==
    IF model_name \notin DOMAIN mm.model_register THEN RaiseM(mm, "KeyError") ELSE
    IF entity_id \notin DOMAIN mm.model_register[model_name]
    THEN RaiseM(mm, "KeyError")
    ELSE ReturnM([mm EXCEPT !.model_register =
                     Put(@, model_name, Del(@[model_name], entity_id))], "None")

----------------------------------------------------------------------------
(* Inputs of the ModelManager *)

\* format names given by callers: "X" is not a registered vertex format
FormatNames == vertex_formats \cup {"X"}

\* model names given by callers
ModelNames == {"n", "n_0"}

\* (vertex_count, index_count) of load_model
Counts == {<<3, 3>>}

\* (width, height) of load_textured_rectangle
Quads == {<<2, 1>>}

\* (bytes for vertex data, bytes for index data) asked of allocate
PoolSizes == {<<4096, 1024>>}

FormatRequests ==
    {[format |-> f, vertex_size |-> p[1], index_size |-> p[2]] :
        f \in FormatNames, p \in PoolSizes}

\* formats_to_allocate in iteration order: a dict, so its formats are distinct
FormatsToAllocate ==
    {<<>>} \cup {<<q>> : q \in FormatRequests}
           \cup {q \in FormatRequests \X FormatRequests : q[1].format # q[2].format}

\* iteration orders of format_registrar._vertex_formats
FormatOrders == {<<"F", "G">>, <<"G", "F">>}

EntityIds == {1, 2}

SystemIds == {"renderer", "renderer2"}

----------------------------------------------------------------------------
(* Actions of the ModelManager *)

\* a model can still be constructed and a copies counter advanced within the bounds
CanLoad ==
    /\ model_count < MaxModels
    /\ \A k \in DOMAIN key_counts : key_counts[k] < MaxCopies

\* the manager's fields become those of mm
SetMM(mm) ==
    /\ memory_blocks' = mm.memory_blocks
    /\ models' = mm.models
    /\ key_counts' = mm.key_counts
    /\ model_register' = mm.model_register
    /\ model_count' = mm.model_count

Allocate ==
    /\ \E formats_to_allocate \in FormatsToAllocate :
       \E order \in IF formats_to_allocate = <<>> THEN FormatOrders ELSE {<<>>} :
        LET r == allocate(MM, formats_to_allocate, order) IN
        /\ SetMM(r.mm)
        /\ ret' = [op |-> "allocate", ok |-> r.ok, result |-> r.result]
    /\ UNCHANGED tmvars

LoadModel ==
    /\ CanLoad
    /\ \E format_name \in FormatNames, c \in Counts, name \in ModelNames,
          do_copy \in BOOLEAN :
        LET r == load_model(MM, format_name, c[1], c[2], name, do_copy) IN
        /\ SetMM(r.mm)
        /\ ret' = [op |-> "load_model", ok |-> r.ok, result |-> r.result]
    /\ UNCHANGED tmvars

CopyModel ==
    /\ CanLoad
    /\ \E model_to_copy \in ModelNames, model_name \in ModelNames \cup {None} :
        LET r == copy_model(MM, model_to_copy, model_name) IN
        /\ SetMM(r.mm)
        /\ ret' = [op |-> "copy_model", ok |-> r.ok, result |-> r.result]
    /\ UNCHANGED tmvars

LoadTexturedRectangle ==
    /\ CanLoad
    /\ \E format_name \in FormatNames, q \in Quads, texture_key \in TexNames,
          name \in ModelNames, do_copy \in BOOLEAN :
        LET r == load_textured_rectangle(MM, TM, format_name, q[1], q[2], texture_key,
                                         name, do_copy) IN
        /\ SetMM(r.mm)
        /\ ret' = [op |-> "load_textured_rectangle", ok |-> r.ok, result |-> r.result]
    /\ UNCHANGED tmvars

UnloadModel ==
    /\ \E model_name \in ModelNames :
        LET r == unload_model(MM, model_name) IN
        /\ SetMM(r.mm)
        /\ ret' = [op |-> "unload_model", ok |-> r.ok, result |-> r.result]
    /\ UNCHANGED tmvars

\* the (model, entity) pairs registered
Registered ==
    {p \in ModelNames \X EntityIds :
        p[1] \in DOMAIN model_register /\ p[2] \in DOMAIN model_register[p[1]]}

RegisterEntity ==
    /\ \E entity_id \in EntityIds, system_id \in SystemIds, model_name \in ModelNames :
        /\ Cardinality(Registered \cup {<<model_name, entity_id>>}) <= MaxRegistered
        /\ LET r == register_entity_with_model(MM, entity_id, system_id, model_name) IN
           /\ SetMM(r.mm)
           /\ ret' = [op |-> "register_entity_with_model", ok |-> r.ok,
                      result |-> r.result]
    /\ UNCHANGED tmvars

UnregisterEntity ==
    /\ \E entity_id \in EntityIds, model_name \in ModelNames :
        LET r == unregister_entity_with_model(MM, entity_id, model_name) IN
        /\ SetMM(r.mm)
        /\ ret' = [op |-> "unregister_entity_with_model", ok |-> r.ok, result |-> r.result]
    /\ UNCHANGED tmvars

----------------------------------------------------------------------------
(* Initial state: ModelManager() and TextureManager() just constructed *)

Init ==
    /\ textures = EmptyDict
    /\ keys = EmptyDict
    /\ key_index = EmptyDict
    /\ texkey_index = EmptyDict
    /\ key_count = 0
    /\ sizes = EmptyDict
    /\ uvs = EmptyDict
    /\ groups = EmptyDict
    /\ memory_blocks = EmptyDict
    /\ models = EmptyDict
    /\ key_counts = EmptyDict
    /\ model_register = EmptyDict
    /\ model_count = 0
    /\ ret = [op |-> "__init__", ok |-> TRUE, result |-> "None"]

\* the TextureManager alone
NextTex == LoadTexture \/ LoadImage \/ LoadAtlas \/ UnloadTexture

SpecTex == Init /\ [][NextTex]_vars

\* the ModelManager, with the textures its textured rectangles read
NextModel ==
    \/ Allocate \/ LoadModel \/ CopyModel \/ LoadTexturedRectangle \/ UnloadModel
    \/ LoadTexture

SpecModel == Init /\ [][NextModel]_vars

\* the ModelManager's models and the entities registered with them
NextReg ==
    \/ Allocate \/ LoadModel \/ UnloadModel \/ RegisterEntity \/ UnregisterEntity

SpecReg == Init /\ [][NextReg]_vars

\* both managers
Next == NextTex \/ NextModel \/ NextReg

Spec == Init /\ [][Next]_vars

----------------------------------------------------------------------------
(* ModelManager: naming, sharing and copying of models *)

\* the vertex formats allocate has reserved pools for
Allocated == DOMAIN memory_blocks

\* every model of `before` is stored unchanged in `after`
ModelsKept(before, after) ==
    \A m \in DOMAIN before : m \in DOMAIN after /\ after[m] = before[m]

\* C1: load_model with do_copy=True on a name already seen succeeds, returns a
\* name that was not a key of the model table, and replaces or removes no
\* stored model.
C1_CopyYieldsFreshName ==
    \A format_name \in Allocated, c \in Counts, name \in DOMAIN key_counts :
        LET r == load_model(MM, format_name, c[1], c[2], name, TRUE) IN
        /\ r.ok
        /\ r.result \notin DOMAIN models
        /\ ModelsKept(models, r.mm.models)

\* C2: with model n loaded and not yet copied, two successive load_model calls
\* with do_copy=True return n_0 and then n_1, and n, n_0, n_1 are then three
\* distinct keys of the model table.
C2_TwoCopiesNumbered ==
    \A format_name \in Allocated, c \in Counts, name \in DOMAIN models :
        (name \in DOMAIN key_counts /\ key_counts[name] = 0) =>
            LET r1 == load_model(MM, format_name, c[1], c[2], name, TRUE)
                r2 == load_model(r1.mm, format_name, c[1], c[2], name, TRUE)
            IN  /\ r1.ok /\ r1.result = name \o "_0"
                /\ r2.ok /\ r2.result = name \o "_1"
                /\ {name, name \o "_0", name \o "_1"} \subseteq DOMAIN r2.mm.models

\* C3: with format F allocated, load_model(F, v, i, n) called twice without
\* do_copy returns n both times, and the second call leaves the model table,
\* the name counters, the registration map and the number of models
\* constructed as the first call left them.
C3_ReloadReturnsExisting ==
    \A format_name \in Allocated, c \in Counts, name \in ModelNames :
        LET r1 == load_model(MM, format_name, c[1], c[2], name, FALSE)
            r2 == load_model(r1.mm, format_name, c[1], c[2], name, FALSE)
        IN  /\ r1.ok /\ r1.result = name
            /\ r2.ok /\ r2.result = name
            /\ r2.mm = r1.mm

\* C3 witness: load_model has just returned the name of a model whose data was
\* written before the call, so the call was a repeated request for that name.
C3_Witness ==
    /\ ret.op = "load_model" /\ ret.ok
    /\ ret.result \in DOMAIN models
    /\ models[ret.result].data # <<"unset">>
    /\ models[ret.result].format \in Allocated

\* C4: copy_model(n) of a loaded model n succeeds and returns another name,
\* under which a model with n's vertex_count, index_count, format and data is
\* stored, and leaves the model under n unchanged.
C4_CopyModelCopies ==
    \A n \in DOMAIN models :
        LET r == copy_model(MM, n, None) IN
        /\ r.ok
        /\ r.result # n
        /\ r.result \in DOMAIN r.mm.models
        /\ r.mm.models[r.result].vertex_count = models[n].vertex_count
        /\ r.mm.models[r.result].index_count = models[n].index_count
        /\ r.mm.models[r.result].format = models[n].format
        /\ r.mm.models[r.result].data = models[n].data
        /\ n \in DOMAIN r.mm.models /\ r.mm.models[n] = models[n]

----------------------------------------------------------------------------
(* TextureManager: names, texkeys, groups and UV rectangles *)

\* name is registered for a key that owns a group and carries that name
IsAnchorName(name) ==
    /\ name \in DOMAIN keys
    /\ keys[name] \in DOMAIN groups
    /\ keys[name] \in DOMAIN key_index
    /\ key_index[keys[name]] = name

\* texkey k has no record left in the name, key, size, UV and group-owner
\* tables of tm, given the name it had
RecordRemoved(tm, k, name) ==
    /\ k \notin DOMAIN tm.key_index
    /\ k \notin DOMAIN tm.texkey_index
    /\ k \notin DOMAIN tm.sizes
    /\ k \notin DOMAIN tm.uvs
    /\ name \notin DOMAIN tm.keys

\* C5: unload_texture on the name of an atlas anchor succeeds and removes
\* every texkey of the anchor's group; afterwards get_texkey_from_name fails
\* for the anchor name and for the name of every member of the group.
C5_UnloadAnchorRemovesGroup ==
    \A name \in AllTexNames :
        IsAnchorName(name) =>
            LET r == unload_texture(TM, name) IN
            /\ r.ok
            /\ name \notin DOMAIN r.tm.keys
            /\ \A k \in Members(groups[keys[name]]) :
                /\ k \notin DOMAIN r.tm.key_index
                /\ k \in DOMAIN key_index => key_index[k] \notin DOMAIN r.tm.keys

\* C6: unload_texture on any registered name, an atlas sub-texture's included,
\* succeeds and removes every member of the group owning that name from the
\* name, key, size, UV and group-owner tables, and the group entry.
C6_UnloadResolvesGroup ==
    \A name \in DOMAIN keys :
        LET r == unload_texture(TM, name) IN
        /\ r.ok
        /\ keys[name] \in DOMAIN texkey_index =>
            LET g == texkey_index[keys[name]] IN
            /\ g \notin DOMAIN r.tm.groups
            /\ g \in DOMAIN groups =>
                \A k \in Members(groups[g]) :
                    k \in DOMAIN key_index => RecordRemoved(r.tm, k, key_index[k])

\* the names load_atlas is to register for atlas_data
AtlasNames(atlas_data) ==
    {basename(atlas_data[i].imgname) : i \in 1..Len(atlas_data)}
    \cup UNION {{e.key : e \in Members(atlas_data[i].content)} : i \in 1..Len(atlas_data)}

\* C7: every operation that would register an already registered name fails:
\* load_texture and load_image for their texture name, load_atlas for an
\* anchor name or a sub-image name.
C7_DuplicateNameFails ==
    /\ \A name \in DOMAIN keys, texture \in Textures :
        ~load_texture(TM, name, texture).ok
    /\ \A source \in ImageFiles :
        splitext_stem(source) \in DOMAIN keys => ~load_image(TM, source).ok
    /\ \A atlas_data \in Atlases(MaxKeys) :
        AtlasNames(atlas_data) \cap DOMAIN keys # {} =>
            ~load_atlas(TM, TRUE, atlas_data).ok

\* C8: the name -> texkey map and the texkey -> name map are inverse
\* bijections.
C8_NameKeyBijection ==
    /\ \A n \in DOMAIN keys :
        keys[n] \in DOMAIN key_index /\ key_index[keys[n]] = n
    /\ \A k \in DOMAIN key_index :
        key_index[k] \in DOMAIN keys /\ keys[key_index[k]] = k

\* C9: texkeys are assigned in strictly increasing order and never reused:
\* every registered texkey is below the key counter, every texkey a call
\* assigns is at or above the counter the call found and below the counter it
\* leaves, no call decreases the counter, and unload_texture leaves it as it
\* is.
C9_TexkeysIncrease ==
    [][/\ \A k \in DOMAIN key_index : k < key_count
       /\ key_count' >= key_count
       /\ \A k \in DOMAIN key_index' \ DOMAIN key_index :
            key_count <= k /\ k < key_count'
       /\ \A name \in AllTexNames :
            unload_texture(TM, name).tm.key_count = key_count]_vars

\* C9 witness: load_texture has just been given a texkey above one that was
\* assigned earlier and has been unloaded since.
C9_Witness ==
    /\ ret.op = "load_texture" /\ ret.ok
    /\ ret.result \in DOMAIN key_index
    /\ \E j \in 0..(ret.result - 1) : j \notin DOMAIN key_index

\* the float q equals the fraction n/d exactly
Equals(q, n, d) == q[2] > 0 /\ q[1] * d = n * q[2]

\* the UV rectangle uv is [0, 0, 1, 1]
IsFullUVs(uv) ==
    Equals(uv[1], 0, 1) /\ Equals(uv[2], 0, 1) /\ Equals(uv[3], 1, 1) /\ Equals(uv[4], 1, 1)

\* the texkeys load_atlas assigns before it reaches image i
RECURSIVE KeysBefore(_, _)
KeysBefore(atlas_data, i) ==
    IF i = 1 THEN 0
    ELSE KeysBefore(atlas_data, i - 1) + 1 + Len(atlas_data[i - 1].content)

\* C10: after load_atlas, a sub-image with pixel rectangle (x, y, w, h) in an
\* image of size (W, H) has UVs [x/W, 1 - y/H, (x+w)/W, 1 - (y+h)/H] exactly
\* and size (w, h); a texture loaded by load_texture or load_image has UVs
\* [0, 0, 1, 1].
C10_UVs ==
    /\ \A atlas_data \in Atlases(MaxKeys) :
        LET r == load_atlas(TM, TRUE, atlas_data) IN
        r.ok =>
            \A i \in 1..Len(atlas_data) : \A j \in 1..Len(atlas_data[i].content) :
                LET k == key_count + KeysBefore(atlas_data, i) + j
                    e == atlas_data[i].content[j]
                    x == e.rect[1]
                    y == e.rect[2]
                    w == e.rect[3]
                    h == e.rect[4]
                    W == ImageSize(atlas_data[i].imgname)[1]
                    H == ImageSize(atlas_data[i].imgname)[2]
                IN  /\ k \in DOMAIN r.tm.key_index /\ r.tm.key_index[k] = e.key
                    /\ k \in DOMAIN r.tm.uvs /\ k \in DOMAIN r.tm.sizes
                    /\ Equals(r.tm.uvs[k][1], x, W)
                    /\ Equals(r.tm.uvs[k][2], H - y, H)
                    /\ Equals(r.tm.uvs[k][3], x + w, W)
                    /\ Equals(r.tm.uvs[k][4], H - (y + h), H)
                    /\ r.tm.sizes[k] = <<w, h>>
    /\ \A name \in TexNames \ DOMAIN keys, texture \in Textures :
        LET r == load_texture(TM, name, texture) IN
        r.ok /\ IsFullUVs(r.tm.uvs[r.result])
    /\ \A source \in ImageFiles :
        splitext_stem(source) \notin DOMAIN keys =>
            LET r == load_image(TM, source) IN
            r.ok /\ IsFullUVs(r.tm.uvs[r.result])

\* C10 witness: load_atlas has just registered the sub-image
\* [10, 10, 20, 20] of the 40 x 50 image, whose UVs are [1/4, 4/5, 3/4, 2/5].
C10_Witness ==
    /\ ret.op = "load_atlas" /\ ret.ok
    /\ \E k \in DOMAIN uvs :
        /\ k \in DOMAIN texkey_index /\ texkey_index[k] # k
        /\ k \in DOMAIN sizes /\ sizes[k] = <<20, 20>>
        /\ uvs[k] = <<<<1, 4>>, <<4, 5>>, <<3, 4>>, <<2, 5>>>>

\* the atlas of one image "sheet.png" (100 x 100) with the sub-image
\* "a": [10, 10, 20, 20]
SheetAtlas ==
    <<[imgname |-> Path("", "sheet", ".png"),
       content |-> <<[key |-> "a", rect |-> <<10, 10, 20, 20>>]>>]>>

\* C11 as stated: load_atlas of the atlas with image "sheet.png" (100 x 100)
\* and sub-image "a": [10, 10, 20, 20] registers the anchor under the name
\* "sheet" with the next texkey K and "a" with K+1, and get_uvs(K+1) returns
\* [0.1, 0.8, 0.3, 0.6].
C11_AsStated ==
    "sheet.png" \notin DOMAIN keys =>
        LET K == key_count
            r == load_atlas(TM, TRUE, SheetAtlas)
            uv == get_uvs(r.tm, K + 1)
        IN  /\ r.ok
            /\ get_texkey_from_name(r.tm, "sheet").ok
            /\ get_texkey_from_name(r.tm, "sheet").result = K
            /\ get_texkey_from_name(r.tm, "a").ok
            /\ get_texkey_from_name(r.tm, "a").result = K + 1
            /\ uv.ok
            /\ Equals(uv.result[1], 1, 10) /\ Equals(uv.result[2], 8, 10)
            /\ Equals(uv.result[3], 3, 10) /\ Equals(uv.result[4], 6, 10)

\* C11: load_atlas of the atlas with image "sheet.png" (100 x 100) and
\* sub-image "a": [10, 10, 20, 20], when no texture is named "sheet.png",
\* registers the anchor under the name "sheet.png" with the next texkey K and
\* "a" with K+1, registers nothing under "sheet", and get_uvs(K+1) returns
\* [0.1, 0.9, 0.3, 0.7].
C11_SheetAtlas ==
    "sheet.png" \notin DOMAIN keys =>
        LET K == key_count
            r == load_atlas(TM, TRUE, SheetAtlas)
            uv == get_uvs(r.tm, K + 1)
        IN  /\ r.ok
            /\ get_texkey_from_name(r.tm, "sheet.png").ok
            /\ get_texkey_from_name(r.tm, "sheet.png").result = K
            /\ get_texkey_from_name(r.tm, "sheet").ok = ("sheet" \in DOMAIN keys)
            /\ get_texkey_from_name(r.tm, "a").ok
            /\ get_texkey_from_name(r.tm, "a").result = K + 1
            /\ uv.ok
            /\ Equals(uv.result[1], 1, 10) /\ Equals(uv.result[2], 9, 10)
            /\ Equals(uv.result[3], 3, 10) /\ Equals(uv.result[4], 7, 10)

\* C11 witness: load_atlas has just registered "sheet.png" and then "a" with
\* consecutive texkeys after an earlier texture, and the UVs of "a" are
\* [1/10, 9/10, 3/10, 7/10].
C11_Witness ==
    /\ ret.op = "load_atlas" /\ ret.ok
    /\ "sheet.png" \in DOMAIN keys /\ "a" \in DOMAIN keys
    /\ keys["sheet.png"] > 0
    /\ keys["a"] = keys["sheet.png"] + 1
    /\ key_count = keys["a"] + 1
    /\ keys["a"] \in DOMAIN uvs
    /\ uvs[keys["a"]] = <<<<1, 10>>, <<9, 10>>, <<3, 10>>, <<7, 10>>>>

----------------------------------------------------------------------------
(* ModelManager: pools, unloading and registration *)

\* C12: for every format processed by allocate, with the sizes given or with
\* the default 75%/25% split of allocation_size, the vertex pool has the
\* specified vertex byte size and the index pool the specified index byte
\* size, and the value allocate returns is the number of bytes reserved from
\* the buffer.
C12_PoolsSized ==
    \A formats_to_allocate \in FormatsToAllocate, order \in FormatOrders :
        LET r == allocate(MM, formats_to_allocate, order)
            processed == IF formats_to_allocate = <<>> THEN DefaultFormats(order)
                         ELSE formats_to_allocate
        IN  r.ok =>
                /\ \A i \in 1..Len(processed) :
                    LET blocks == r.mm.memory_blocks[processed[i].format] IN
                    /\ blocks.vertices_block.size = processed[i].vertex_size
                    /\ blocks.indices_block.size = processed[i].index_size
                /\ r.result = r.reserved

\* table `after` is table `before` without the entry of name, if it had one:
\* the entry of every other name is unchanged
RemovedExactly(before, after, name) ==
    /\ DOMAIN after = DOMAIN before \ {name}
    /\ \A other \in DOMAIN after : after[other] = before[other]

\* C13: unload_model(name) on a loaded model removes exactly that name from
\* the model table, from the registration map and from the name counters,
\* leaving the entries of every other name and the pools unchanged; on a name
\* that is not in the model table it fails and changes nothing.
C13_UnloadModelFrame ==
    \A name \in ModelNames :
        LET r == unload_model(MM, name) IN
        IF name \in DOMAIN models
        THEN /\ r.ok
             /\ RemovedExactly(models, r.mm.models, name)
             /\ RemovedExactly(model_register, r.mm.model_register, name)
             /\ RemovedExactly(key_counts, r.mm.key_counts, name)
             /\ r.mm.memory_blocks = memory_blocks
        ELSE /\ ~r.ok
             /\ r.mm = MM

\* C13 witness: unload_model has just removed a model, its bucket and its
\* counter, while another model is still stored with its own bucket and
\* counter.
C13_Witness ==
    /\ ret.op = "unload_model" /\ ret.ok
    /\ \E gone \in ModelNames :
        /\ gone \notin DOMAIN models
        /\ gone \notin DOMAIN model_register
        /\ gone \notin DOMAIN key_counts
    /\ \E other \in DOMAIN models :
        /\ other \in DOMAIN model_register
        /\ model_register[other] # EmptyDict
        /\ other \in DOMAIN key_counts

\* C14 as stated: load_model with a format for which allocate has reserved no
\* pools fails, for every name and either value of do_copy, including a name
\* already seen.
C14_AsStated ==
    \A format_name \in FormatNames \ Allocated, c \in Counts,
       name \in ModelNames, do_copy \in BOOLEAN :
        ~load_model(MM, format_name, c[1], c[2], name, do_copy).ok

\* C14: load_model with a format for which allocate has reserved no pools
\* fails and stores no model, for every name and either value of do_copy,
\* except that for a registered vertex format a request without do_copy for a
\* name already seen returns that name and changes nothing.
C14_UnallocatedFormat ==
    \A format_name \in FormatNames \ Allocated, c \in Counts,
       name \in ModelNames, do_copy \in BOOLEAN :
        LET r == load_model(MM, format_name, c[1], c[2], name, do_copy) IN
        IF format_name \in vertex_formats /\ name \in DOMAIN key_counts /\ ~do_copy
        THEN r.ok /\ r.result = name /\ r.mm = MM
        ELSE ~r.ok /\ r.mm.models = models /\ r.mm.model_count = model_count

\* C14 witness: load_model has returned a name although no format has pools,
\* after an earlier load_model failed for want of pools and left the name's
\* counter behind.
C14_Witness ==
    /\ ret.op = "load_model" /\ ret.ok
    /\ Allocated = {}
    /\ ret.result \in DOMAIN key_counts
    /\ models = EmptyDict

\* entity e is registered under model m in the registration map reg
IsRegistered(reg, e, m) == m \in DOMAIN reg /\ e \in DOMAIN reg[m]

\* the registration maps before and after hold the same buckets and entries,
\* but for the entry of entity e under model m
SameButEntry(before, after, e, m) ==
    /\ DOMAIN after \ {m} = DOMAIN before \ {m}
    /\ \A other \in DOMAIN after \ {m} : after[other] = before[other]
    /\ m \in DOMAIN before =>
        /\ m \in DOMAIN after
        /\ DOMAIN after[m] \ {e} = DOMAIN before[m] \ {e}
        /\ \A x \in DOMAIN after[m] \ {e} : after[m][x] = before[m][x]

\* C15: unregister_entity_with_model(e, m) fails with KeyError and changes
\* nothing when e is not registered under m, also when m has no bucket; when e
\* is registered under m it succeeds and removes only the entry of e, every
\* other entry under m and every other bucket staying as they were; and
\* register_entity_with_model(e, s, m) records s as the consumer of e under m
\* whatever was recorded before, leaving every other entry as it was.
C15_UnregisterEntity ==
    \A e \in EntityIds, m \in ModelNames :
        /\ LET r == unregister_entity_with_model(MM, e, m) IN
           IF IsRegistered(model_register, e, m)
           THEN /\ r.ok
                /\ ~IsRegistered(r.mm.model_register, e, m)
                /\ SameButEntry(model_register, r.mm.model_register, e, m)
                /\ [r.mm EXCEPT !.model_register = model_register] = MM
           ELSE /\ ~r.ok /\ r.result = "KeyError"
                /\ r.mm = MM
        /\ \A s \in SystemIds :
            LET r == register_entity_with_model(MM, e, s, m) IN
            /\ r.ok
            /\ IsRegistered(r.mm.model_register, e, m)
            /\ r.mm.model_register[m][e] = s
            /\ SameButEntry(model_register, r.mm.model_register, e, m)

\* C15 witness: unregister_entity_with_model has just removed entity 1 from a
\* bucket that still holds entity 2 with its consumer.
C15_Witness ==
    /\ ret.op = "unregister_entity_with_model" /\ ret.ok
    /\ \E m \in DOMAIN model_register :
        /\ 2 \in DOMAIN model_register[m]
        /\ 1 \notin DOMAIN model_register[m]
        /\ model_register[m][2] = "renderer2"

----------------------------------------------------------------------------
(* TextureManager: records of the registered texkeys *)

\* the registered texkeys: those that carry a name
RegisteredTexkeys == DOMAIN key_index

\* C16 as stated: every registered texkey, standalone, anchor or sub-texture,
\* has a complete record: get_texture, get_size, get_uvs,
\* get_groupkey_from_texkey and get_texname_from_texkey all succeed for it, and
\* none of them changes a table.
C16_AsStated ==
    \A k \in RegisteredTexkeys :
        /\ get_texture(TM, k).ok /\ get_texture(TM, k).tm = TM
        /\ get_size(TM, k).ok /\ get_size(TM, k).tm = TM
        /\ get_uvs(TM, k).ok /\ get_uvs(TM, k).tm = TM
        /\ get_groupkey_from_texkey(TM, k).ok
        /\ get_groupkey_from_texkey(TM, k).tm = TM
        /\ get_texname_from_texkey(TM, k).ok
        /\ get_texname_from_texkey(TM, k).tm = TM

\* C16: every texkey a name maps to is registered, and every registered
\* texkey has a size, a UV rectangle, an owning group key and a name:
\* get_size, get_uvs, get_groupkey_from_texkey and get_texname_from_texkey
\* succeed for it. get_texture succeeds for its owning group key, and for the
\* texkey itself exactly when it is its own group key (a standalone texture or
\* an atlas anchor, not a sub-texture). No lookup changes a table, and a
\* lookup of a texkey that was never assigned fails.
C16_Records ==
    /\ \A name \in DOMAIN keys :
        get_texkey_from_name(TM, name).result \in RegisteredTexkeys
    /\ \A k \in RegisteredTexkeys :
        /\ get_size(TM, k).ok /\ get_size(TM, k).tm = TM
        /\ get_uvs(TM, k).ok /\ get_uvs(TM, k).tm = TM
        /\ get_groupkey_from_texkey(TM, k).ok
        /\ get_groupkey_from_texkey(TM, k).tm = TM
        /\ get_texname_from_texkey(TM, k).ok
        /\ get_texname_from_texkey(TM, k).tm = TM
        /\ LET g == get_groupkey_from_texkey(TM, k).result IN
           /\ get_texture(TM, g).ok /\ get_texture(TM, g).tm = TM
           /\ get_texture(TM, k).ok = (g = k)
           /\ get_texture(TM, k).tm = TM
    /\ \A k \in key_count..MaxKeys + 1 :
        /\ ~get_texture(TM, k).ok /\ ~get_size(TM, k).ok /\ ~get_uvs(TM, k).ok
        /\ ~get_groupkey_from_texkey(TM, k).ok
        /\ ~get_texname_from_texkey(TM, k).ok

\* C16 witness: load_atlas has registered a sub-texture, which has a size, UVs
\* and a name, whose group key has a texture and which has none itself, next
\* to a standalone texture that has one.
C16_Witness ==
    /\ ret.op = "load_atlas" /\ ret.ok
    /\ \E k \in RegisteredTexkeys :
        /\ texkey_index[k] # k
        /\ k \in DOMAIN sizes /\ k \in DOMAIN uvs
        /\ k \notin DOMAIN textures
        /\ texkey_index[k] \in DOMAIN textures
    /\ \E k \in RegisteredTexkeys :
        /\ groups[k] = <<k>>
        /\ k \in DOMAIN textures

\* every member of the group of group_key is gone from the tables of tm, with
\* the group entry and its texture
GroupRemoved(tm, group_key, members) ==
    /\ group_key \notin DOMAIN tm.groups
    /\ group_key \notin DOMAIN tm.textures
    /\ \A k \in members :
        /\ k \notin DOMAIN tm.key_index /\ k \notin DOMAIN tm.sizes
        /\ k \notin DOMAIN tm.uvs /\ k \notin DOMAIN tm.texkey_index
        /\ \A name \in DOMAIN tm.keys : tm.keys[name] # k

\* C17: unload_texture is all-or-nothing: a call either succeeds and removes
\* the records of every member of the group together with the group entry, or
\* fails and leaves every texture table as it was before the call.
C17_UnloadAllOrNothing ==
    \A name \in AllTexNames :
        LET r == unload_texture(TM, name) IN
        IF r.ok
        THEN GroupRemoved(r.tm, keys[name], Members(groups[keys[name]]))
        ELSE r.tm = TM

\* C18: the group tables are consistent: every group key is a member of its
\* own group list, every registered texkey k has an owning group key g that is
\* a key of the group table with k in g's list, every member of a group list
\* is a registered texkey, and no texkey is in two groups.
C18_GroupsConsistent ==
    /\ \A g \in DOMAIN groups : get_texkey_in_group(TM, g, g).result
    /\ \A k \in RegisteredTexkeys :
        /\ get_groupkey_from_texkey(TM, k).ok
        /\ LET g == get_groupkey_from_texkey(TM, k).result IN
           /\ get_texkey_in_group(TM, k, g).ok
           /\ get_texkey_in_group(TM, k, g).result
    /\ \A g \in DOMAIN groups :
        \A k \in Members(groups[g]) : k \in RegisteredTexkeys
    /\ \A g1 \in DOMAIN groups, g2 \in DOMAIN groups :
        g1 # g2 => Members(groups[g1]) \cap Members(groups[g2]) = {}

----------------------------------------------------------------------------
(* ModelManager: failed calls *)

\* C19: every name that has a name-counter entry is a key of the model table,
\* every name load_model returns is a key of the model table, and a load_model
\* call that fails leaves the name counters and the model table unchanged.
C19_CountersHaveModels ==
    /\ \A name \in DOMAIN key_counts : name \in DOMAIN models
    /\ \A format_name \in FormatNames, c \in Counts, name \in ModelNames,
          do_copy \in BOOLEAN :
        LET r == load_model(MM, format_name, c[1], c[2], name, do_copy) IN
        IF r.ok
        THEN r.result \in DOMAIN r.mm.models
        ELSE r.mm.key_counts = key_counts /\ r.mm.models = models

\* C20: load_textured_rectangle with a texture name that is not registered
\* fails and leaves the ModelManager unchanged, so that for a name not yet
\* seen the same call made once the texture is registered constructs the
\* model and writes its quad.
C20_FailedRectangleNoEffect ==
    \A format_name \in Allocated, q \in Quads, name \in ModelNames,
       texture_key \in TexNames \ DOMAIN keys, do_copy \in BOOLEAN :
        LET r == load_textured_rectangle(MM, TM, format_name, q[1], q[2],
                                         texture_key, name, do_copy)
        IN  /\ ~r.ok
            /\ r.mm = MM
            /\ name \notin DOMAIN key_counts =>
                \A texture \in Textures :
                    LET t == load_texture(TM, texture_key, texture).tm
                        r2 == load_textured_rectangle(r.mm, t, format_name, q[1], q[2],
                                                      texture_key, name, do_copy)
                    IN  /\ r2.ok
                        /\ r2.mm.model_count = model_count + 1
                        /\ r2.mm.models[r2.result].data =
                               <<"rectangle", q[1], q[2], FullUVs>>

====
